---- MODULE Spec2Model ----
(***************************************************************************)
(* Fuzzy deduplication (rust_core/src/fuzzy_dedupe.rs): normalize_text,    *)
(* similarity_ratio, lcs_length, raw_similarity_ratio and cluster_titles.  *)
(*                                                                         *)
(* A string is a sequence of characters; a character is a one-character    *)
(* TLA+ string.  as_bytes() is modelled by the UTF-8 encoding of each      *)
(* character.  An f64 is a pair <<n, d>> standing for n/d (d > 0), with    *)
(* <<0, 0>> for NaN and <<1, 0>> for +infinity; comparisons follow IEEE    *)
(* 754 (every comparison with NaN is false).  All the numbers the code     *)
(* computes are quotients of small integers, so the exact quotient orders  *)
(* and compares exactly as its correctly rounded f64 does.                 *)
(***************************************************************************)
EXTENDS Integers, Sequences, FiniteSets, TLC

VARIABLES
    pc,         \* position of the call in progress
    text,       \* normalize_text: argument
    out,        \* normalize_text: returned String
    a, b,       \* similarity_ratio: arguments
    ratio,      \* similarity_ratio: returned f64
    titles,     \* cluster_titles: argument `titles`
    threshold,  \* cluster_titles: argument `threshold`
    normed,     \* cluster_titles: local `normed`
    clusters,   \* cluster_titles: local `clusters` (positions are 0-based)
    i,          \* cluster_titles: index of the next item of the outer loop
    prev, curr, \* lcs_length: the two rows (cell j is element j + 1)
    row,        \* lcs_length: the outer loop's next i
    matches     \* lcs_length: returned usize

lcsVars == <<prev, curr, row, matches>>

vars == <<pc, text, out, a, b, ratio, titles, threshold, normed, clusters, i,
          prev, curr, row, matches>>

-----------------------------------------------------------------------------
(* Bounds *)

MaxLen == 3         \* longest argument of normalize_text, similarity_ratio, lcs_length
MaxTitles == 3      \* longest `titles` vector
MaxChars == 6       \* most characters in all the titles of one call together

-----------------------------------------------------------------------------
(* Characters *)

\* "E" stands for U+00C9 (E acute, bytes C3 89), "e" for U+00E9 (bytes C3 A9).
TextChars == {"a", "b", "B", " ", "\t", "E"}
ScoreChars == {"a", "B", " ", "E"}
TitleChars == {"a", "B", " "}

IsWhitespace(c) == c \in {" ", "\t"}

LowerChar(c) ==
    CASE c = "B" -> "b"
      [] c = "E" -> "e"
      [] OTHER -> c

IsUppercase(c) == c \in {"B", "E"}

Utf8(c) ==
    CASE c = "a" -> <<97>>
      [] c = "b" -> <<98>>
      [] c = "B" -> <<66>>
      [] c = " " -> <<32>>
      [] c = "\t" -> <<9>>
      [] c = "E" -> <<195, 137>>
      [] c = "e" -> <<195, 169>>

StringsOver(chars, n) == UNION {[1..k -> chars] : k \in 0..n}

RECURSIVE AsBytes(_)
AsBytes(s) == IF s = <<>> THEN <<>> ELSE Utf8(Head(s)) \o AsBytes(Tail(s))

Min(x, y) == IF x <= y THEN x ELSE y
Max(x, y) == IF x >= y THEN x ELSE y

-----------------------------------------------------------------------------
(* f64 *)

NaN == <<0, 0>>
Zero == <<0, 1>>
One == <<1, 1>>

RECURSIVE Gcd(_, _)
Gcd(x, y) == IF y = 0 THEN x ELSE Gcd(y, x % y)

\* n as f64 / d as f64, for n, d >= 0
FDiv(n, d) ==
    IF d = 0 THEN (IF n = 0 THEN NaN ELSE <<1, 0>>)
    ELSE LET g == Gcd(n, d) IN <<n \div g, d \div g>>

IsNaN(x) == x = NaN
FLt(x, y) == ~IsNaN(x) /\ ~IsNaN(y) /\ x[1] * y[2] < y[1] * x[2]
FGe(x, y) == ~IsNaN(x) /\ ~IsNaN(y) /\ x[1] * y[2] >= y[1] * x[2]
FEq(x, y) == ~IsNaN(x) /\ ~IsNaN(y) /\ x[1] * y[2] = y[1] * x[2]

Half == <<1, 2>>

-----------------------------------------------------------------------------
(* normalize_text *)

\* as str::split(char::is_whitespace) would: empty fragments are kept
RECURSIVE SplitEachWhitespace(_, _, _)
SplitEachWhitespace(s, word, acc) ==
    IF s = <<>> THEN Append(acc, word)
    ELSE IF IsWhitespace(Head(s))
         THEN SplitEachWhitespace(Tail(s), <<>>, Append(acc, word))
         ELSE SplitEachWhitespace(Tail(s), Append(word, Head(s)), acc)

\* str::split_whitespace: the maximal runs of non-whitespace characters
RECURSIVE SplitWhitespace(_, _, _)
SplitWhitespace(s, word, acc) ==
    IF s = <<>> THEN (IF word = <<>> THEN acc ELSE Append(acc, word))
    ELSE IF IsWhitespace(Head(s))
         THEN SplitWhitespace(Tail(s), <<>>,
                              IF word = <<>> THEN acc ELSE Append(acc, word))
         ELSE SplitWhitespace(Tail(s), Append(word, Head(s)), acc)

\* [&str]::join(" ")
RECURSIVE Join(_)
Join(words) ==
    IF words = <<>> THEN <<>>
    ELSE IF Len(words) = 1 THEN words[1]
    ELSE words[1] \o <<" ">> \o Join(Tail(words))

\* str::to_lowercase
ToLowercase(s) == [k \in 1..Len(s) |-> LowerChar(s[k])]

normalize_text(t) == ToLowercase(Join(SplitWhitespace(t, <<>>, <<>>)))

-----------------------------------------------------------------------------
(* lcs_length *)

\* the inner loop with `curr[j] = curr[j - 1] + 1` on a match
RECURSIVE LcsRowLeft(_, _, _, _, _)
LcsRowLeft(ai, bs, prv, cur, j) ==
    IF j > Len(bs) THEN cur
    ELSE LcsRowLeft(ai, bs, prv,
                    [cur EXCEPT ![j + 1] =
                        IF ai = bs[j] THEN cur[j] + 1
                        ELSE Max(cur[j], prv[j + 1])],
                    j + 1)

\* the inner loop: curr[j] for j = 1..n, from prev; row index j is curr[j + 1]
RECURSIVE LcsRow(_, _, _, _, _)
LcsRow(ai, bs, prv, cur, j) ==
    IF j > Len(bs) THEN cur
    ELSE LcsRow(ai, bs, prv,
                [cur EXCEPT ![j + 1] =
                    IF ai = bs[j] THEN prv[j] + 1
                    ELSE Max(cur[j], prv[j + 1])],
                j + 1)

\* the outer loop from row r on; swap(prev, curr) then curr.fill(0)
RECURSIVE LcsRows(_, _, _, _)
LcsRows(as, bs, prv, r) ==
    IF r > Len(as) THEN prv
    ELSE LcsRows(as, bs,
                 LcsRow(as[r], bs, prv, [j \in 1..(Len(bs) + 1) |-> 0], 1),
                 r + 1)

lcs_length(as, bs) ==
    LcsRows(as, bs, [j \in 1..(Len(bs) + 1) |-> 0], 1)[Len(bs) + 1]

-----------------------------------------------------------------------------
(* similarity_ratio, raw_similarity_ratio *)

\* the length pre-check with `len_ratio <= 0.5`
similarity_ratio_le(x, y) ==
    IF x = <<>> /\ y = <<>> THEN One
    ELSE IF x = <<>> \/ y = <<>> THEN Zero
    ELSE LET a_bytes == AsBytes(normalize_text(x))
             b_bytes == AsBytes(normalize_text(y))
             a_len == Len(a_bytes)
             b_len == Len(b_bytes)
             len_ratio == FDiv(Min(a_len, b_len), Max(a_len, b_len))
         IN IF FLt(len_ratio, Half) \/ FEq(len_ratio, Half) THEN len_ratio
            ELSE FDiv(2 * lcs_length(a_bytes, b_bytes), a_len + b_len)

similarity_ratio(x, y) ==
    IF x = <<>> /\ y = <<>> THEN One
    ELSE IF x = <<>> \/ y = <<>> THEN Zero
    ELSE LET a_bytes == AsBytes(normalize_text(x))
             b_bytes == AsBytes(normalize_text(y))
             a_len == Len(a_bytes)
             b_len == Len(b_bytes)
             len_ratio == FDiv(Min(a_len, b_len), Max(a_len, b_len))
         IN IF FLt(len_ratio, Half) THEN len_ratio
            ELSE FDiv(2 * lcs_length(a_bytes, b_bytes), a_len + b_len)

\* without the emptiness checks of lines 117-122
raw_similarity_ratio_unguarded(x, y) ==
    LET a_bytes == AsBytes(x)
        b_bytes == AsBytes(y)
    IN FDiv(2 * lcs_length(a_bytes, b_bytes), Len(a_bytes) + Len(b_bytes))

raw_similarity_ratio(x, y) ==
    IF x = <<>> /\ y = <<>> THEN One
    ELSE IF x = <<>> \/ y = <<>> THEN Zero
    ELSE LET a_bytes == AsBytes(x)
             b_bytes == AsBytes(y)
         IN FDiv(2 * lcs_length(a_bytes, b_bytes), Len(a_bytes) + Len(b_bytes))

-----------------------------------------------------------------------------
(* cluster_titles *)

\* the f64 values `threshold` is drawn from
Thresholds ==
    {<<-1, 2>>, Zero, Half, <<4, 5>>, <<9, 10>>, One, <<3, 2>>, NaN}

\* the member pushed last, where the code takes cluster[0]
PivotLast(cs, k) == cs[k][Len(cs[k])]

\* cluster[0] of the k-th cluster
Pivot(cs, k) == cs[k][1]

\* the inner loop with `ratio > threshold`
RECURSIVE FirstFitStrict(_, _, _, _, _)
FirstFitStrict(cs, nm, th, title, k) ==
    IF k > Len(cs) THEN 0
    ELSE LET r == raw_similarity_ratio(title, nm[Pivot(cs, k) + 1])
         IN IF FGe(r, th) /\ ~FEq(r, th) THEN k
            ELSE FirstFitStrict(cs, nm, th, title, k + 1)

\* the inner loop looking at the newest cluster only
FirstFitNewest(cs, nm, th, title, k) ==
    IF cs = <<>> THEN 0
    ELSE IF FGe(raw_similarity_ratio(title, nm[Pivot(cs, Len(cs)) + 1]), th)
         THEN Len(cs)
         ELSE 0

\* the inner loop from cluster k on: the index of the first cluster whose
\* pivot scores >= th against `title`, or 0 when the loop ends unplaced
RECURSIVE FirstFit(_, _, _, _, _)
FirstFit(cs, nm, th, title, k) ==
    IF k > Len(cs) THEN 0
    ELSE IF FGe(raw_similarity_ratio(title, nm[Pivot(cs, k) + 1]), th) THEN k
    ELSE FirstFit(cs, nm, th, title, k + 1)

\* the outer loop's body with `clusters.insert(0, vec![i])`
ClusterStepPrepend(cs, nm, th, idx) ==
    LET k == FirstFit(cs, nm, th, nm[idx + 1], 1)
    IN IF k = 0 THEN <<<<idx>>>> \o cs
       ELSE [cs EXCEPT ![k] = Append(@, idx)]

\* the outer loop's body without `placed = true`
ClusterStepUnplaced(cs, nm, th, idx) ==
    LET k == FirstFit(cs, nm, th, nm[idx + 1], 1)
    IN IF k = 0 THEN Append(cs, <<idx>>)
       ELSE Append([cs EXCEPT ![k] = Append(@, idx)], <<idx>>)

\* one iteration of the outer loop, for item idx (0-based)
ClusterStep(cs, nm, th, idx) ==
    LET k == FirstFit(cs, nm, th, nm[idx + 1], 1)
    IN IF k = 0 THEN Append(cs, <<idx>>)
       ELSE [cs EXCEPT ![k] = Append(@, idx)]

\* the whole loop, from item idx on
RECURSIVE ClusterFrom(_, _, _, _)
ClusterFrom(cs, nm, th, idx) ==
    IF idx >= Len(nm) THEN cs
    ELSE ClusterFrom(ClusterStep(cs, nm, th, idx), nm, th, idx + 1)

\* the clusters cluster_titles returns for (ts, th)
ClusterTitles(ts, th) ==
    ClusterFrom(<<>>, [k \in 1..Len(ts) |-> normalize_text(ts[k])], th, 0)

-----------------------------------------------------------------------------
(* Calls *)

Idle == <<>>
NoRatio == <<0, -1>>

\* lens[1] + ... + lens[k]
RECURSIVE Sum(_, _)
Sum(lens, k) == IF k = 0 THEN 0 ELSE lens[k] + Sum(lens, k - 1)

\* the titles of lengths lens whose characters are those of flat, in order
Cut(flat, lens) ==
    [k \in 1..Len(lens) |-> SubSeq(flat, Sum(lens, k - 1) + 1, Sum(lens, k))]

\* whitespace occurs in the input only as the one-character blank title
Plain(t) == Len(t) = 1 \/ \A k \in 1..Len(t) : ~IsWhitespace(t[k])

\* cluster_titles(titles, threshold) is entered: at most MaxTitles titles of
\* at most MaxChars characters together, and any threshold of Thresholds
Init ==
    /\ pc = "entry"
    /\ \E n \in 0..MaxTitles : \E lens \in [1..n -> 0..MaxChars] :
          /\ Sum(lens, n) <= MaxChars
          /\ \E flat \in [1..Sum(lens, n) -> TitleChars] :
                /\ \A k \in 1..n : Plain(Cut(flat, lens)[k])
                /\ titles = Cut(flat, lens)
    /\ threshold \in Thresholds
    /\ normed = <<>>
    /\ clusters = <<>>
    /\ i = 0
    /\ text = Idle /\ out = Idle /\ a = Idle /\ b = Idle /\ ratio = NoRatio
    /\ prev = <<>> /\ curr = <<>> /\ row = 0 /\ matches = 0

\* let normed = titles.iter().map(normalize_text).collect(); clusters = Vec::new()
Normalize ==
    /\ pc = "entry"
    /\ normed' = [k \in 1..Len(titles) |-> normalize_text(titles[k])]
    /\ clusters' = <<>>
    /\ i' = 0
    /\ pc' = "loop"
    /\ UNCHANGED <<text, out, a, b, ratio, titles, threshold>>
    /\ UNCHANGED lcsVars

\* one iteration of `for (i, title) in normed.iter().enumerate()`
Step ==
    /\ pc = "loop"
    /\ i < Len(normed)
    /\ clusters' = ClusterStep(clusters, normed, threshold, i)
    /\ i' = i + 1
    /\ UNCHANGED <<pc, text, out, a, b, ratio, titles, threshold, normed>>
    /\ UNCHANGED lcsVars

\* the loop is over: the clusters are copied out and returned
Return ==
    /\ pc = "loop"
    /\ i = Len(normed)
    /\ pc' = "returned"
    /\ UNCHANGED <<text, out, a, b, ratio, titles, threshold, normed, clusters, i>>
    /\ UNCHANGED lcsVars

Next == Normalize \/ Step \/ Return

Spec == Init /\ [][Next]_vars

-----------------------------------------------------------------------------
(* A call of normalize_text *)

InitNormalize ==
    /\ pc = "normalize"
    /\ text \in StringsOver(TextChars, MaxLen)
    /\ out = Idle
    /\ a = Idle /\ b = Idle /\ ratio = NoRatio
    /\ titles = <<>> /\ threshold = Zero /\ normed = <<>> /\ clusters = <<>>
    /\ i = 0
    /\ prev = <<>> /\ curr = <<>> /\ row = 0 /\ matches = 0

NormalizeText ==
    /\ pc = "normalize"
    /\ out' = normalize_text(text)
    /\ pc' = "normalized"
    /\ UNCHANGED <<text, a, b, ratio, titles, threshold, normed, clusters, i>>
    /\ UNCHANGED lcsVars

\* the caller passes the returned string to normalize_text again
NormalizeAgain ==
    /\ pc = "normalized"
    /\ text # out
    /\ text' = out
    /\ out' = Idle
    /\ pc' = "normalize"
    /\ UNCHANGED <<a, b, ratio, titles, threshold, normed, clusters, i>>
    /\ UNCHANGED lcsVars

NextNormalize == NormalizeText \/ NormalizeAgain

SpecNormalize == InitNormalize /\ [][NextNormalize]_vars

-----------------------------------------------------------------------------
(* A call of similarity_ratio *)

InitSimilarity ==
    /\ pc = "score"
    /\ a \in StringsOver(ScoreChars, MaxLen)
    /\ b \in StringsOver(ScoreChars, MaxLen)
    /\ ratio = NoRatio
    /\ text = Idle /\ out = Idle
    /\ titles = <<>> /\ threshold = Zero /\ normed = <<>> /\ clusters = <<>>
    /\ i = 0
    /\ prev = <<>> /\ curr = <<>> /\ row = 0 /\ matches = 0

SimilarityRatio ==
    /\ pc = "score"
    /\ ratio' = similarity_ratio(a, b)
    /\ pc' = "scored"
    /\ UNCHANGED <<text, out, a, b, titles, threshold, normed, clusters, i>>
    /\ UNCHANGED lcsVars

NextSimilarity == SimilarityRatio

SpecSimilarity == InitSimilarity /\ [][NextSimilarity]_vars

-----------------------------------------------------------------------------
(* A call of lcs_length *)

\* the bytes of "a" and "b" and the lead byte of a two-byte character
LcsBytes == {97, 98, 195}

InitLcs ==
    /\ pc = "lcs_entry"
    /\ a \in StringsOver(LcsBytes, MaxLen)
    /\ b \in StringsOver(LcsBytes, MaxLen)
    /\ prev = <<>> /\ curr = <<>> /\ row = 0 /\ matches = 0
    /\ text = Idle /\ out = Idle /\ ratio = NoRatio
    /\ titles = <<>> /\ threshold = Zero /\ normed = <<>> /\ clusters = <<>>
    /\ i = 0

\* let mut prev = vec![0usize; n + 1]; let mut curr = vec![0usize; n + 1]
LcsAllocate ==
    /\ pc = "lcs_entry"
    /\ prev' = [j \in 1..(Len(b) + 1) |-> 0]
    /\ curr' = [j \in 1..(Len(b) + 1) |-> 0]
    /\ row' = 1
    /\ pc' = "lcs_loop"
    /\ UNCHANGED <<text, out, a, b, ratio, titles, threshold, normed, clusters, i,
                   matches>>

\* one iteration of `for i in 1..=m`: the inner loop fills curr, then
\* swap(prev, curr) and curr.fill(0)
LcsOuter ==
    /\ pc = "lcs_loop"
    /\ row <= Len(a)
    /\ prev' = LcsRow(a[row], b, prev, curr, 1)
    /\ curr' = [j \in 1..Len(prev) |-> 0]
    /\ row' = row + 1
    /\ UNCHANGED <<pc, text, out, a, b, ratio, titles, threshold, normed, clusters,
                   i, matches>>

\* prev[n]
LcsReturn ==
    /\ pc = "lcs_loop"
    /\ row > Len(a)
    /\ matches' = prev[Len(b) + 1]
    /\ pc' = "lcs_returned"
    /\ UNCHANGED <<text, out, a, b, ratio, titles, threshold, normed, clusters, i,
                   prev, curr, row>>

NextLcs == LcsAllocate \/ LcsOuter \/ LcsReturn

SpecLcs == InitLcs /\ [][NextLcs]_vars

-----------------------------------------------------------------------------
(* Properties of cluster_titles *)

\* the pairs <<k, j>> with cs[k][j] = p
Places(cs, p) ==
    {kj \in UNION {{<<k, j>> : j \in 1..Len(cs[k])} : k \in 1..Len(cs)} :
        cs[kj[1]][kj[2]] = p}

\* the index of a cluster of cs that holds p
ClusterOf(cs, p) == CHOOSE k \in 1..Len(cs) : \E j \in 1..Len(cs[k]) : cs[k][j] = p

SameCluster(cs, p, q) == ClusterOf(cs, p) = ClusterOf(cs, q)

\* the score cluster_titles computes between positions p and q
Score(p, q) == raw_similarity_ratio(normed[p + 1], normed[q + 1])

\* C1: at every step of the pass and on return, the clusters partition the
\* positions processed so far (0..i-1; all of 0..n-1 on return): no cluster is
\* empty, every entry is such a position, and every such position has exactly
\* one place.
C1_Partition ==
    pc \in {"loop", "returned"} =>
        /\ \A k \in 1..Len(clusters) : clusters[k] # <<>>
        /\ \A k \in 1..Len(clusters) : \A j \in 1..Len(clusters[k]) :
              clusters[k][j] \in 0..(i - 1)
        /\ \A p \in 0..(i - 1) : Cardinality(Places(clusters, p)) = 1
        /\ pc = "returned" => i = Len(titles)

C1_Witness ==
    /\ pc = "returned"
    /\ Len(titles) = 3
    /\ Len(clusters) = 2

\* the clusters whose pivot scores >= threshold against item p
Qualifying(cs, p) ==
    {k \in 1..Len(cs) : FGe(Score(p, Pivot(cs, k)), threshold)}

\* C2: first fit.  Each step puts item i into the lowest-numbered cluster
\* whose pivot scores >= threshold against it, or appends the cluster <<i>>
\* when there is none; and in every state each member other than the pivot
\* scores >= threshold against its own pivot and < threshold against the
\* pivot of every earlier cluster.
C2_FirstFitMembers ==
    pc \in {"loop", "returned"} =>
        \A k \in 1..Len(clusters) : \A j \in 2..Len(clusters[k]) :
            /\ FGe(Score(clusters[k][j], Pivot(clusters, k)), threshold)
            /\ \A e \in 1..(k - 1) :
                  FLt(Score(clusters[k][j], Pivot(clusters, e)), threshold)

C2_FirstFitStep ==
    Step =>
        LET q == Qualifying(clusters, i)
        IN IF q = {} THEN clusters' = Append(clusters, <<i>>)
           ELSE LET k == CHOOSE m \in q : \A o \in q : m <= o
                IN clusters' = [clusters EXCEPT ![k] = Append(@, i)]

C2_FirstFit == [](C2_FirstFitMembers) /\ [][C2_FirstFitStep]_vars

\* an item joined the second cluster although a first cluster exists
C2_Witness ==
    /\ pc = "returned"
    /\ Len(clusters) = 2
    /\ Len(clusters[2]) = 2
    /\ Len(clusters[1]) = 1

\* C3 as stated: the partition returned at threshold refines the partition
\* returned at every lower threshold t1.
C3_Refines ==
    pc = "returned" =>
        \A t1 \in Thresholds :
            FLt(t1, threshold) =>
                \A p, q \in 0..(Len(titles) - 1) :
                    SameCluster(clusters, p, q) =>
                        SameCluster(ClusterTitles(titles, t1), p, q)

\* C3 amended: raising the threshold never adds a position to the first
\* cluster (the cluster of position 0): the first cluster returned at
\* threshold is a subset of the first cluster returned at every lower t1.
C3_FirstClusterShrinks ==
    pc = "returned" /\ titles # <<>> =>
        \A t1 \in Thresholds :
            FLt(t1, threshold) =>
                LET low == ClusterTitles(titles, t1)[1]
                IN \A j \in 1..Len(clusters[1]) :
                       \E h \in 1..Len(low) : low[h] = clusters[1][j]

\* the first cluster lost a member to a higher threshold
C3_Witness ==
    /\ pc = "returned"
    /\ threshold = <<4, 5>>
    /\ Len(titles) = 3
    /\ Len(clusters[1]) = 1
    /\ Len(ClusterTitles(titles, Half)[1]) = 2
    /\ \E p, q \in 0..(Len(titles) - 1) :
          /\ SameCluster(clusters, p, q)
          /\ ~SameCluster(ClusterTitles(titles, Half), p, q)

-----------------------------------------------------------------------------
(* Properties of normalize_text *)

-----------------------------------------------------------------------------
(* Properties of similarity_ratio *)

\* every subsequence of s
RECURSIVE Subsequences(_)
Subsequences(s) ==
    IF s = <<>> THEN {<<>>}
    ELSE LET r == Subsequences(Tail(s))
         IN r \cup {<<Head(s)>> \o t : t \in r}

\* the length of a longest common subsequence of x and y, by definition
LongestCommon(x, y) ==
    LET common == Subsequences(x) \cap Subsequences(y)
    IN CHOOSE n \in 0..Len(x) :
          /\ \E s \in common : Len(s) = n
          /\ \A s \in common : Len(s) <= n

WhitespaceOnly(s) == s # <<>> /\ \A k \in 1..Len(s) : IsWhitespace(s[k])

\* C4: similarity_ratio returns a number s with 0.0 <= s <= 1.0 for every pair
\* of strings (a NaN, the result of 0.0 / 0.0, is no such number).
C4_Bounded ==
    pc = "scored" => FGe(ratio, Zero) /\ FGe(One, ratio)

\* C5: similarity_ratio(a, a) == 1.0 for every string a.
C5_Reflexive ==
    pc = "scored" /\ a = b => FEq(ratio, One)

\* C6: similarity_ratio(a, b) == similarity_ratio(b, a) for all strings.
C6_Symmetric ==
    pc = "scored" => FEq(ratio, similarity_ratio(b, a))

\* C8: for already-normalized a and b, raw_similarity_ratio(a, b) equals
\* similarity_ratio(a, b).
C8_RawAgrees ==
    pc = "scored" /\ normalize_text(a) = a /\ normalize_text(b) = b =>
        ratio = raw_similarity_ratio(a, b)

\* C9: similarity_ratio returns 1.0 when both arguments are empty, 0.0 when
\* exactly one is; otherwise, with la and lb the byte lengths of the
\* normalized arguments, min/max when that quotient is below 0.5 and
\* 2 * M / (la + lb) otherwise, M being the length of a longest common
\* subsequence of the normalized byte sequences.
C9_Algorithm ==
    pc = "scored" =>
        IF a = <<>> /\ b = <<>> THEN ratio = One
        ELSE IF a = <<>> \/ b = <<>> THEN ratio = Zero
        ELSE LET na == AsBytes(normalize_text(a))
                 nb == AsBytes(normalize_text(b))
                 lo == Min(Len(na), Len(nb))
                 hi == Max(Len(na), Len(nb))
             IN IF hi > 0 /\ 2 * lo < hi THEN ratio = FDiv(lo, hi)
                ELSE ratio = FDiv(2 * LongestCommon(na, nb), Len(na) + Len(nb))

\* a pair past the length pre-check whose score the LCS decides: lengths 3 and
\* 2 with a longest common subsequence of one byte
C9_Witness ==
    /\ pc = "scored"
    /\ Len(a) = 3 /\ Len(b) = 2
    /\ ratio = <<2, 5>>

\* C10: similarity_ratio(a, b) equals similarity_ratio(a2, b2) whenever a2
\* normalizes as a does and b2 as b does.
C10_FormatInsensitive ==
    pc = "scored" =>
        \A a2, b2 \in StringsOver(ScoreChars, MaxLen) :
            normalize_text(a2) = normalize_text(a)
                /\ normalize_text(b2) = normalize_text(b)
            => ratio = similarity_ratio(a2, b2)

-----------------------------------------------------------------------------
(* Threshold extremes, order and representatives of cluster_titles *)

\* C11: for a non-empty input, threshold <= 0 returns the one cluster
\* <<0, ..., n-1>> and threshold > 1 returns the n clusters <<0>>, ..., <<n-1>>;
\* an empty input returns no cluster at any threshold.
C11_ThresholdExtremes ==
    pc = "returned" =>
        LET n == Len(titles)
        IN /\ n = 0 => clusters = <<>>
           /\ n > 0 /\ FGe(Zero, threshold) =>
                 clusters = <<[k \in 1..n |-> k - 1]>>
           /\ n > 0 /\ FLt(One, threshold) =>
                 clusters = [k \in 1..n |-> <<k - 1>>]

\* three titles, two of them blank, were returned as one cluster at threshold 0
C11_Witness ==
    /\ pc = "returned"
    /\ Len(titles) = 3
    /\ threshold = Zero
    /\ normed[1] = <<>> /\ normed[2] = <<>> /\ normed[3] # <<>>
    /\ clusters = <<<<0, 1, 2>>>>

\* C12: a step keeps every existing cluster in its place with its members
\* and its representative, and adds item i either at the end of exactly one
\* cluster or as the new last cluster <<i>>; in every state the positions of
\* a cluster increase strictly, its representative is its smallest position,
\* and the representatives increase strictly from one cluster to the next.
C12_Order ==
    pc \in {"loop", "returned"} =>
        /\ \A k \in 1..Len(clusters) : \A j \in 1..(Len(clusters[k]) - 1) :
              clusters[k][j] < clusters[k][j + 1]
        /\ \A k \in 1..Len(clusters) : \A j \in 1..Len(clusters[k]) :
              clusters[k][1] <= clusters[k][j]
        /\ \A k \in 1..(Len(clusters) - 1) :
              clusters[k][1] < clusters[k + 1][1]

C12_StepKeeps ==
    pc = "loop" =>
        /\ Len(clusters') >= Len(clusters)
        /\ \A k \in 1..Len(clusters) :
              /\ clusters'[k][1] = clusters[k][1]
              /\ SubSeq(clusters'[k], 1, Len(clusters[k])) = clusters[k]
        /\ Step =>
              \/ /\ clusters' = Append(clusters, <<i>>)
              \/ /\ Len(clusters') = Len(clusters)
                 /\ Cardinality({k \in 1..Len(clusters) :
                                    clusters'[k] # clusters[k]}) = 1
                 /\ \E k \in 1..Len(clusters) :
                       clusters'[k] = Append(clusters[k], i)

C12_OrderAndPermanence == [](C12_Order) /\ [][C12_StepKeeps]_vars

\* the first cluster took a later item after the second cluster was created
C12_Witness ==
    /\ pc = "returned"
    /\ clusters = <<<<0, 2>>, <<1>>>>

\* C14 as stated: in every state the representative of a cluster scores
\* < threshold against the representative of every cluster created earlier.
C14_PivotsBelow ==
    pc \in {"loop", "returned"} =>
        \A k \in 1..Len(clusters) : \A e \in 1..(k - 1) :
            FLt(Score(Pivot(clusters, k), Pivot(clusters, e)), threshold)

\* C14 amended: in every state the representative of a cluster does not score
\* >= threshold against the representative of any cluster created earlier
\* (which is `< threshold` unless the threshold is NaN).
C14_PivotsApart ==
    pc \in {"loop", "returned"} =>
        \A k \in 1..Len(clusters) : \A e \in 1..(k - 1) :
            ~FGe(Score(Pivot(clusters, k), Pivot(clusters, e)), threshold)

\* three clusters were formed at threshold 0.5
C14_Witness ==
    /\ pc = "returned"
    /\ threshold = Half
    /\ Len(clusters) = 3

-----------------------------------------------------------------------------
(* Properties of lcs_length *)

\* C13: when the outer loop has done its first row - 1 iterations, prev[j] is
\* the length of a longest common subsequence of a[0..row-1] and b[0..j] for
\* every j in 0..=len(b), and curr holds no value of an older row (it is all
\* zero); the value returned is that length for a and b, and at most
\* min(len(a), len(b)).
C13_LcsCorrect ==
    /\ pc = "lcs_loop" =>
          /\ \A j \in 0..Len(b) :
                prev[j + 1] = LongestCommon(SubSeq(a, 1, row - 1), SubSeq(b, 1, j))
          /\ \A j \in 1..Len(curr) : curr[j] = 0
    /\ pc = "lcs_returned" =>
          /\ matches = LongestCommon(a, b)
          /\ matches <= Min(Len(a), Len(b))

\* two sequences of three bytes with a longest common subsequence of two,
\* which is no prefix of either
C13_Witness ==
    /\ pc = "lcs_returned"
    /\ Len(a) = 3 /\ Len(b) = 3
    /\ a[1] # b[1]
    /\ matches = 2

\* C15: the two rows have length min(len(a), len(b)) + 1, in either argument
\* order.
C15_RowsOfShorter ==
    pc \in {"lcs_loop", "lcs_returned"} =>
        /\ Len(prev) = Min(Len(a), Len(b)) + 1
        /\ Len(curr) = Min(Len(a), Len(b)) + 1

====
